---- MODULE Spec2Model ----
(***************************************************************************)
(* Annotation model (ColumnInfo, ParameterInfo, ValueInfo, TableInfo) and  *)
(* the interpolation result object (InterpolationWithUncertainties) of     *)
(* susy_cross_section.                                                     *)
(*                                                                         *)
(* A scenario draws an input (constructor arguments, a JSON value, a query)*)
(* in the initial state; the actions apply the operations of the classes.  *)
(*   op   : name of the operation that ran last ("start" before any)       *)
(*   arg  : the input of the scenario / of the last from_json              *)
(*   self : the instance the scenario works on (NoObj when there is none)  *)
(*   ret  : outcome of the last operation, [exc, val]                      *)
(***************************************************************************)
EXTENDS Integers, Sequences, FiniteSets, TLC

VARIABLES op, arg, self, ret

vars == <<op, arg, self, ret>>

(***************************************************************************)
(* Python values.  Every value is a record [t, i, s]: t is the Python type,*)
(* i the numeric payload (number value, or the size of a container) and s  *)
(* the string payload.                                                     *)
(***************************************************************************)
None_ == [t |-> "none", i |-> 0, s |-> ""]

IntV(n) == [t |-> "int", i |-> n, s |-> ""]

FloatV(n) == [t |-> "float", i |-> n, s |-> ""]

BoolV(b) == [t |-> "bool", i |-> IF b THEN 1 ELSE 0, s |-> ""]

StrV(x) == [t |-> "str", i |-> 0, s |-> x]

\* a list / a dict with n entries whose content plays no role
ListV(n) == [t |-> "list", i |-> n, s |-> ""]

DictV(n) == [t |-> "dict", i |-> n, s |-> ""]

\* bool(v): the truth value Python's `or` / `if` sees
Truthy(v) ==
    CASE v.t = "none" -> FALSE
      [] v.t = "str" -> v.s # ""
      [] OTHER -> v.i # 0

\* `a or b`
Or(a, b) == IF Truthy(a) THEN a ELSE b

IsNumber(v) == v.t \in {"int", "float", "bool"}

\* isinstance(v, int): bool is a subclass of int
IsInt(v) == v.t \in {"int", "bool"}

IsStr(v) == v.t = "str"

\* a == b: numbers compare by value across int, float and bool
PyEq(a, b) == IF IsNumber(a) /\ IsNumber(b) THEN a.i = b.i ELSE a = b

(***************************************************************************)
(* JSON inputs: [t, m] where m maps the keys present to their values; a    *)
(* JSON value that is not an object has t # "dict" and no keys.            *)
(***************************************************************************)
NoKeys == [k \in {} |-> None_]

JObj(m) == [t |-> "dict", m |-> m]

JOther(t) == [t |-> t, m |-> NoKeys]

Has(j, k) == k \in DOMAIN j.m

\* json_obj.get(k, default) on a dict
Get(j, k, default) == IF Has(j, k) THEN j.m[k] ELSE default

\* the exception of json_obj[k], "none" when the subscript succeeds
Subscript(j, k) ==
    IF j.t # "dict" THEN "TypeError"
    ELSE IF ~Has(j, k) THEN "KeyError"
    ELSE "none"

Ok(v) == [exc |-> "none", val |-> v]

NoObj == [cls |-> "NoObj"]

Raise(e) == [exc |-> e, val |-> NoObj]

(***************************************************************************)
(* ColumnInfo                                                              *)
(***************************************************************************)
ColumnInfo(index, name, unit) ==
    [cls |-> "ColumnInfo", index |-> index, name |-> name,
     unit |-> Or(unit, StrV(""))]

ColumnInfo_validate(c) ==
    IF ~IsInt(c.index) THEN "TypeError"
    ELSE IF ~(c.index.i >= 0) THEN "ValueError"
    ELSE IF ~IsStr(c.name) THEN "TypeError"
    ELSE IF ~Truthy(c.name) THEN "ValueError"
    ELSE IF ~IsStr(c.unit) THEN "TypeError"
    ELSE "none"

ColumnInfo_from_json(j) ==
    IF Subscript(j, "index") # "none" \/ Subscript(j, "name") # "none"
    THEN Raise("ValueError")
    ELSE LET obj == ColumnInfo(j.m["index"], j.m["name"],
                               Get(j, "unit", StrV("")))
             e == ColumnInfo_validate(obj)
         IN  IF e # "none" THEN Raise(e) ELSE Ok(obj)

\* ColumnInfo.to_json that never writes "unit"
ColumnInfo_to_json_NoUnit(c) ==
    JObj([k \in {"index", "name"} |-> IF k = "index" THEN c.index ELSE c.name])

ColumnInfo_to_json(c) ==
    JObj([k \in {"index", "name"} \cup (IF Truthy(c.unit) THEN {"unit"} ELSE {})
            |-> CASE k = "index" -> c.index
                  [] k = "name" -> c.name
                  [] k = "unit" -> c.unit])

(***************************************************************************)
(* ParameterInfo                                                           *)
(***************************************************************************)
ParameterInfo(column, granularity) ==
    [cls |-> "ParameterInfo", column |-> column,
     granularity |-> Or(granularity, None_)]

\* float(g): the number, or the exception float() raises.  A string parses
\* when it spells a number; a list or a dict is a TypeError.
Float(g) ==
    CASE IsNumber(g) -> [exc |-> "none", x |-> g.i]
      [] g.t = "str" /\ g.s = "2" -> [exc |-> "none", x |-> 2]
      [] g.t = "str" /\ g.s = "-1" -> [exc |-> "none", x |-> -1]
      [] g.t = "str" -> [exc |-> "ValueError", x |-> 0]
      [] OTHER -> [exc |-> "TypeError", x |-> 0]

ParameterInfo_validate(p) ==
    IF ~IsStr(p.column) THEN "TypeError"
    ELSE IF ~Truthy(p.column) THEN "ValueError"
    ELSE IF p.granularity # None_
    THEN LET f == Float(p.granularity)
         IN  IF f.exc # "none" THEN f.exc
             ELSE IF ~(f.x > 0) THEN "ValueError"
             ELSE "none"
    ELSE "none"

ParameterInfo_from_json(j) ==
    IF Subscript(j, "column") # "none"
    THEN Raise("ValueError")
    ELSE LET obj == ParameterInfo(j.m["column"], Get(j, "granularity", None_))
             e == ParameterInfo_validate(obj)
         IN  IF e # "none" THEN Raise(e) ELSE Ok(obj)

ParameterInfo_to_json(p) ==
    JObj([k \in {"column"} \cup
                (IF Truthy(p.granularity) THEN {"granularity"} ELSE {})
            |-> IF k = "column" THEN p.column ELSE p.granularity])

(***************************************************************************)
(* ValueInfo.  An uncertainty mapping is [t, l]: t is the Python type of   *)
(* the attribute ("dict" for a mapping) and l its items in insertion order,*)
(* each [k, v].  In JSON an uncertainty definition is [t, l] with l the    *)
(* list of its sources, each a JSON value; a value that is not a list has  *)
(* l empty when it is falsy ("", 0, {}) and one entry when it is not.      *)
(***************************************************************************)
EmptyDict == [t |-> "dict", l |-> <<>>]

UNone == [t |-> "none", l |-> <<>>]

UTruthy(u) == u.t # "none" /\ Len(u.l) > 0

UOr(a, b) == IF UTruthy(a) THEN a ELSE b

_valid_uncertainty_types == {StrV("relative"), StrV("absolute")}

ValueInfo(column, unc_p, unc_m) ==
    [cls |-> "ValueInfo", column |-> column,
     unc_p |-> UOr(unc_p, EmptyDict), unc_m |-> UOr(unc_m, EmptyDict)]

\* the checks of one of unc_p, unc_m, items in order, first failure wins
UncValidate(u) ==
    IF u.t # "dict" THEN "TypeError"
    ELSE LET bad == {n \in 1..Len(u.l) :
                        ~IsStr(u.l[n].k) \/ u.l[n].v \notin _valid_uncertainty_types}
         IN  IF bad = {} THEN "none"
             ELSE LET n == CHOOSE x \in bad : \A y \in bad : x <= y
                  IN  IF ~IsStr(u.l[n].k) THEN "TypeError" ELSE "ValueError"

ValueInfo_validate(v) ==
    IF ~IsStr(v.column) THEN "TypeError"
    ELSE IF ~Truthy(v.column) THEN "ValueError"
    ELSE IF UncValidate(v.unc_p) # "none" THEN UncValidate(v.unc_p)
    ELSE UncValidate(v.unc_m)

\* {source["column"]: source["type"] for source in l}: a later source with
\* the key of an earlier one replaces its value and keeps its position
RECURSIVE DictOfSources(_)
DictOfSources(l) ==
    IF l = <<>> THEN <<>>
    ELSE LET n == Len(l)
             head == DictOfSources(SubSeq(l, 1, n - 1))
             item == [k |-> l[n].m["column"], v |-> l[n].m["type"]]
         IN  IF \E x \in 1..Len(head) : head[x].k = item.k
             THEN [x \in 1..Len(head) |->
                      IF head[x].k = item.k THEN item ELSE head[x]]
             ELSE Append(head, item)

\* one turn of the loop over ("unc_p", "unc+"), ("unc_m", "unc-"): the
\* exception raised, or the mapping the attribute holds after the turn
UncFromJson(j, key_name) ==
    LET unc_def == UOr(UOr(Get(j, key_name, UNone), Get(j, "unc", UNone)), UNone)
    IN  IF unc_def = UNone THEN [exc |-> "none", d |-> EmptyDict]
        ELSE IF ~(unc_def.t = "list"
                  /\ \A n \in 1..Len(unc_def.l) : unc_def.l[n].t = "dict")
        THEN [exc |-> "TypeError", d |-> EmptyDict]
        ELSE IF \E n \in 1..Len(unc_def.l) :
                   ~Has(unc_def.l[n], "column") \/ ~Has(unc_def.l[n], "type")
        THEN [exc |-> "ValueError", d |-> EmptyDict]
        ELSE [exc |-> "none", d |-> [t |-> "dict", l |-> DictOfSources(unc_def.l)]]

\* ValueInfo.from_json whose ambiguity test looks at "unc+" only
ValueInfo_from_json_PlusOnly(j) ==
    IF j.t # "dict" THEN Raise("TypeError")
    ELSE IF ~Has(j, "column") THEN Raise("KeyError")
    ELSE IF Has(j, "unc") /\ Has(j, "unc+")
    THEN Raise("ValueError")
    ELSE LET p == UncFromJson(j, "unc+")
             m == UncFromJson(j, "unc-")
         IN  IF p.exc # "none" THEN Raise(p.exc)
             ELSE IF m.exc # "none" THEN Raise(m.exc)
             ELSE Ok([cls |-> "ValueInfo", column |-> j.m["column"],
                      unc_p |-> p.d, unc_m |-> m.d])

ValueInfo_from_json(j) ==
    IF j.t # "dict" THEN Raise("TypeError")
    ELSE IF ~Has(j, "column") THEN Raise("KeyError")
    ELSE IF Has(j, "unc") /\ (Has(j, "unc+") \/ Has(j, "unc-"))
    THEN Raise("ValueError")
    ELSE LET p == UncFromJson(j, "unc+")
             m == UncFromJson(j, "unc-")
         IN  IF p.exc # "none" THEN Raise(p.exc)
             ELSE IF m.exc # "none" THEN Raise(m.exc)
             ELSE Ok([cls |-> "ValueInfo", column |-> j.m["column"],
                      unc_p |-> p.d, unc_m |-> m.d])

\* [{"column": k, "type": v} for k, v in unc.items()]
SourcesOfDict(u) ==
    [t |-> "list",
     l |-> [n \in 1..Len(u.l) |->
              JObj([k \in {"column", "type"} |->
                      IF k = "column" THEN u.l[n].k ELSE u.l[n].v])]]

ValueInfo_to_json(v) ==
    JObj([k \in {"column", "unc+", "unc-"} |->
            CASE k = "column" -> v.column
              [] k = "unc+" -> SourcesOfDict(v.unc_p)
              [] k = "unc-" -> SourcesOfDict(v.unc_m)])

(***************************************************************************)
(* TableInfo.  columns, parameters and values are [t, l]: the Python type  *)
(* of the attribute and its elements in order.  document and               *)
(* reader_options are Python values; a dict with a key that is not a       *)
(* string carries the mark NonStrKey in s.                                 *)
(***************************************************************************)
EmptyList == [t |-> "list", l |-> <<>>]

NonStrKey == "non-str key"

DictNonStrKeyV(n) == [t |-> "dict", i |-> n, s |-> NonStrKey]

TableInfo(document, columns, parameters, values, reader_options) ==
    [cls |-> "TableInfo",
     document |-> Or(document, DictV(0)),
     columns |-> UOr(columns, EmptyList),
     parameters |-> UOr(parameters, EmptyList),
     values |-> UOr(values, EmptyList),
     reader_options |-> Or(reader_options, DictV(0))]

\* the first exception in a sequence of outcomes, "none" when there is none
FirstExc(excs) ==
    IF \A n \in DOMAIN excs : excs[n] = "none" THEN "none"
    ELSE excs[CHOOSE n \in DOMAIN excs :
                 excs[n] # "none" /\ \A m \in 1..(n - 1) : excs[m] = "none"]

\* obj.validate() of an element of columns, parameters or values
validate(obj) ==
    CASE obj.cls = "ColumnInfo" -> ColumnInfo_validate(obj)
      [] obj.cls = "ParameterInfo" -> ParameterInfo_validate(obj)
      [] obj.cls = "ValueInfo" -> ValueInfo_validate(obj)

\* one turn of `for name in ["columns", "parameters", "values"]`
ListValidate(a) ==
    IF a.t # "list" THEN "TypeError"
    ELSE FirstExc([n \in 1..Len(a.l) |-> validate(a.l[n])])

\* ColumnsCheck without the test for a name seen before
ColumnsCheck_NoDuplicateTest(cols) ==
    IF \E n \in 1..Len(cols) : ~PyEq(cols[n].index, IntV(n - 1))
    THEN "ValueError"
    ELSE "none"

\* the loop over enumerate(self.columns): index is position, names unique
ColumnsCheck(cols) ==
    IF \E n \in 1..Len(cols) :
          \/ ~PyEq(cols[n].index, IntV(n - 1))
          \/ \E m \in 1..(n - 1) : cols[m].name = cols[n].name
    THEN "ValueError"
    ELSE "none"

\* the names a ValueInfo refers to: its column and the keys of unc_p, unc_m
Referenced(v) ==
    {v.column} \cup {v.unc_p.l[n].k : n \in 1..Len(v.unc_p.l)}
               \cup {v.unc_m.l[n].k : n \in 1..Len(v.unc_m.l)}

\* the loops over self.parameters and self.values
ReferencesCheck(tbl) ==
    LET names_dict == {tbl.columns.l[n].name : n \in 1..Len(tbl.columns.l)}
    IN  IF \/ \E n \in 1..Len(tbl.parameters.l) :
                 tbl.parameters.l[n].column \notin names_dict
           \/ \E n \in 1..Len(tbl.values.l) :
                 \E col \in Referenced(tbl.values.l[n]) : col \notin names_dict
        THEN "ValueError"
        ELSE "none"

\* TableInfo.validate that checks the table-level invariants before the
\* elements of columns, parameters and values
TableInfo_validate_CrossChecksFirst(tbl) ==
    FirstExc(<<IF tbl.document.t # "dict" THEN "TypeError" ELSE "none",
               IF \A n \in 1..3 :
                     <<tbl.columns, tbl.parameters, tbl.values>>[n].t = "list"
               THEN FirstExc(<<ColumnsCheck(tbl.columns.l), ReferencesCheck(tbl)>>)
               ELSE "none",
               ListValidate(tbl.columns),
               ListValidate(tbl.parameters),
               ListValidate(tbl.values),
               IF tbl.reader_options.t # "dict" THEN "TypeError" ELSE "none",
               IF tbl.reader_options.s = NonStrKey THEN "TypeError" ELSE "none">>)

TableInfo_validate(tbl) ==
    FirstExc(<<IF tbl.document.t # "dict" THEN "TypeError" ELSE "none",
               ListValidate(tbl.columns),
               ListValidate(tbl.parameters),
               ListValidate(tbl.values),
               IF tbl.reader_options.t # "dict" THEN "TypeError" ELSE "none",
               IF tbl.reader_options.s = NonStrKey THEN "TypeError" ELSE "none",
               ColumnsCheck(tbl.columns.l),
               ReferencesCheck(tbl)>>)

\* self._load with the keywords kw: the exception raised and the instance as the call
\* leaves it.  The attributes are assigned one after the other, so a failure
\* keeps the assignments made before it.  A key "self" collides with the
\* bound parameter before the body runs.
TableInfo__load(tbl, kw) ==
    LET doc == Or(Get(kw, "document", None_), DictV(0))
        cs == UOr(Get(kw, "columns", UNone), EmptyList).l
        ps == UOr(Get(kw, "parameters", UNone), EmptyList).l
        vs == UOr(Get(kw, "values", UNone), EmptyList).l
        colExc == IF \E n \in 1..Len(cs) : cs[n].t # "dict"
                  THEN "AttributeError" ELSE "none"
        cols == [n \in 1..Len(cs) |->
                   ColumnInfo(IntV(n - 1), Get(cs[n], "name", None_),
                              Get(cs[n], "unit", None_))]
        pars == [n \in 1..Len(ps) |-> ParameterInfo_from_json(ps[n])]
        parExc == FirstExc([n \in 1..Len(ps) |-> pars[n].exc])
        vals == [n \in 1..Len(vs) |-> ValueInfo_from_json(vs[n])]
        valExc == FirstExc([n \in 1..Len(vs) |-> vals[n].exc])
        t1 == [tbl EXCEPT !.document = doc]
        t2 == [t1 EXCEPT !.columns = [t |-> "list", l |-> cols]]
        t3 == [t2 EXCEPT !.parameters =
                  [t |-> "list", l |-> [n \in 1..Len(ps) |-> pars[n].val]]]
        t4 == [t3 EXCEPT !.values =
                  [t |-> "list", l |-> [n \in 1..Len(vs) |-> vals[n].val]]]
        t5 == [t4 EXCEPT !.reader_options =
                  Or(Get(kw, "reader_options", None_), DictV(0))]
    IN  IF Has(kw, "self") THEN [exc |-> "TypeError", self |-> tbl]
        ELSE IF colExc # "none" THEN [exc |-> colExc, self |-> t1]
        ELSE IF parExc # "none" THEN [exc |-> parExc, self |-> t2]
        ELSE IF valExc # "none" THEN [exc |-> valExc, self |-> t3]
        ELSE [exc |-> "none", self |-> t5]

(***************************************************************************)
(* Inputs of the scenarios                                                 *)
(***************************************************************************)
\* most sources in one uncertainty definition, most items in one mapping
MaxSources == 2

\* a key that the JSON object does not have
Absent == [t |-> "absent"]

Opt(S) == S \cup {Absent}

\* the JSON object with the keys ks[n] whose value vs[n] is not Absent
JObjOf(ks, vs) ==
    JObj([k \in {ks[n] : n \in {x \in DOMAIN ks : vs[x] # Absent}}
            |-> vs[CHOOSE n \in DOMAIN ks : ks[n] = k]])

\* the sequences over S of length at most n
SeqUpTo(S, n) == UNION {[1..k -> S] : k \in 0..n}

IndexVals ==
    {IntV(0), IntV(1), IntV(-1), BoolV(TRUE), FloatV(1), StrV("0"), None_}

NameVals == {StrV("a"), StrV(""), IntV(5), None_}

UnitVals == {StrV(""), StrV("GeV"), None_, IntV(0), IntV(5)}

ExtraVals == {StrV("x")}

ParamColumnVals == {StrV("a"), StrV(""), IntV(5), None_}

GranularityVals ==
    {None_, IntV(0), IntV(2), IntV(-1), FloatV(0), FloatV(1), FloatV(-1),
     BoolV(FALSE), StrV("2"), StrV("-1"), StrV("x"), StrV(""), ListV(1)}

Source(k, v) == JObj([x \in {"column", "type"} |-> IF x = "column" THEN k ELSE v])

SourceJsons ==
    {Source(StrV("a"), StrV("relative")), Source(StrV("b"), StrV("absolute")),
     Source(StrV("a"), StrV("absolute")), Source(IntV(5), StrV("relative")),
     Source(StrV("a"), StrV("bogus")),
     JObj([x \in {"column"} |-> StrV("a")]), JOther("str")}

\* what "unc+" may hold: null, a list of sources, a string, 0, a bare dict
UncDefs ==
    {UNone} \cup {[t |-> "list", l |-> l] : l \in SeqUpTo(SourceJsons, MaxSources)}
        \cup {[t |-> "str", l |-> <<JOther("str")>>], [t |-> "int", l |-> <<>>],
              [t |-> "dict", l |-> <<Source(StrV("a"), StrV("relative"))>>]}

UncDefsMinus ==
    {UNone, [t |-> "list", l |-> <<>>],
     [t |-> "list", l |-> <<Source(StrV("b"), StrV("absolute"))>>],
     [t |-> "list", l |-> <<Source(StrV("b"), StrV("relative")),
                            Source(StrV("a"), StrV("absolute"))>>],
     [t |-> "list", l |-> <<JOther("str")>>],
     [t |-> "list", l |-> <<JObj([x \in {"type"} |-> StrV("relative")])>>]}

UncDefsBoth ==
    {[t |-> "list", l |-> <<>>],
     [t |-> "list", l |-> <<Source(StrV("a"), StrV("relative"))>>]}

ValueColumnVals == {StrV("x"), StrV(""), IntV(5)}

Item(k, v) == [k |-> k, v |-> v]

ItemVals ==
    {Item(StrV("a"), StrV("relative")), Item(StrV("a"), StrV("absolute")),
     Item(StrV("b"), StrV("absolute")), Item(StrV("b"), StrV("bogus")),
     Item(IntV(5), StrV("relative"))}

\* what the constructor may get for unc_p / unc_m: None, a dict, a list
UncArgs ==
    {UNone, [t |-> "list", l |-> <<Item(StrV("a"), StrV("relative"))>>]}
        \cup {[t |-> "dict", l |-> l] :
                l \in {x \in SeqUpTo(ItemVals, MaxSources) :
                          \A m, n \in 1..Len(x) : x[m].k = x[n].k => m = n}}

Ctor(cls, a) == [kind |-> "ctor", cls |-> cls, a |-> a]

Json(cls, j) == [kind |-> "json", cls |-> cls, j |-> j]

RoundTrip(cls, j) == [kind |-> "roundtrip", cls |-> cls, j |-> j]

(***************************************************************************)
(* The sub-entities: construction, from_json, to_json, validate            *)
(***************************************************************************)
\* cls.from_json(j)
from_json(cls, j) ==
    CASE cls = "ColumnInfo" -> ColumnInfo_from_json(j)
      [] cls = "ParameterInfo" -> ParameterInfo_from_json(j)
      [] cls = "ValueInfo" -> ValueInfo_from_json(j)

\* obj.to_json()
to_json(obj) ==
    CASE obj.cls = "ColumnInfo" -> ColumnInfo_to_json(obj)
      [] obj.cls = "ParameterInfo" -> ParameterInfo_to_json(obj)
      [] obj.cls = "ValueInfo" -> ValueInfo_to_json(obj)

\* a JSON value that is not an object
NonObjects == {JOther("list"), JOther("str"), JOther("none")}

ColumnInfoScenario ==
    \/ \E i \in IndexVals, n \in NameVals, u \in UnitVals :
          arg = Ctor("ColumnInfo", <<i, n, u>>)
    \/ \E i \in Opt(IndexVals), n \in Opt(NameVals), u \in Opt(UnitVals),
           x \in Opt(ExtraVals) :
          arg = Json("ColumnInfo",
                     JObjOf(<<"index", "name", "unit", "note">>, <<i, n, u, x>>))
    \/ \E j \in NonObjects : arg = Json("ColumnInfo", j)

ParameterInfoScenario ==
    \/ \E c \in ParamColumnVals, g \in GranularityVals :
          arg = Ctor("ParameterInfo", <<c, g>>)
    \/ \E c \in Opt(ParamColumnVals), g \in Opt(GranularityVals),
           x \in Opt(ExtraVals) :
          arg = Json("ParameterInfo",
                     JObjOf(<<"column", "granularity", "note">>, <<c, g, x>>))
    \/ \E j \in NonObjects : arg = Json("ParameterInfo", j)

ValueInfoScenario ==
    \/ \E c \in ValueColumnVals, p \in UncArgs, m \in UncArgs :
          arg = Ctor("ValueInfo", <<c, p, m>>)
    \/ \E c \in Opt(ValueColumnVals), p \in Opt(UncDefs), m \in Opt(UncDefsMinus),
           u \in Opt(UncDefsBoth), x \in Opt(ExtraVals) :
          arg = Json("ValueInfo",
                     JObjOf(<<"column", "unc+", "unc-", "unc", "note">>,
                            <<c, p, m, u, x>>))
    \/ \E j \in NonObjects : arg = Json("ValueInfo", j)

InitInfo ==
    /\ op = "start"
    /\ ColumnInfoScenario \/ ParameterInfoScenario \/ ValueInfoScenario
    /\ self = NoObj
    /\ ret = Ok(NoObj)

\* cls(...) on the arguments of the scenario
Construct(cls, obj) ==
    /\ op = "start"
    /\ arg.kind = "ctor"
    /\ arg.cls = cls
    /\ op' = cls \o ".__init__"
    /\ self' = obj
    /\ ret' = Ok(NoObj)
    /\ UNCHANGED arg

\* cls.from_json on the JSON of the scenario (the instance returned becomes
\* the instance of the scenario) or on what self.to_json() just returned
FromJson(cls) ==
    \/ /\ op = "start"
       /\ arg.kind = "json"
       /\ arg.cls = cls
       /\ op' = cls \o ".from_json"
       /\ ret' = from_json(cls, arg.j)
       /\ self' = ret'.val
       /\ UNCHANGED arg
    \/ /\ op = cls \o ".to_json"
       /\ ret.exc = "none"
       /\ op' = cls \o ".from_json"
       /\ arg' = RoundTrip(cls, ret.val)
       /\ ret' = from_json(cls, ret.val)
       /\ UNCHANGED self

ToJson(cls, result) ==
    /\ self.cls = cls
    /\ op' = cls \o ".to_json"
    /\ ret' = result
    /\ UNCHANGED <<arg, self>>

Validate(cls, exc) ==
    /\ self.cls = cls
    /\ op' = cls \o ".validate"
    /\ ret' = [exc |-> exc, val |-> NoObj]
    /\ UNCHANGED <<arg, self>>

Call_ColumnInfo_init ==
    Construct("ColumnInfo", ColumnInfo(arg.a[1], arg.a[2], arg.a[3]))

Call_ColumnInfo_from_json == FromJson("ColumnInfo")

Call_ColumnInfo_to_json == ToJson("ColumnInfo", Ok(ColumnInfo_to_json(self)))

Call_ColumnInfo_validate == Validate("ColumnInfo", ColumnInfo_validate(self))

Call_ParameterInfo_init ==
    Construct("ParameterInfo", ParameterInfo(arg.a[1], arg.a[2]))

Call_ParameterInfo_from_json == FromJson("ParameterInfo")

Call_ParameterInfo_to_json ==
    ToJson("ParameterInfo", Ok(ParameterInfo_to_json(self)))

Call_ParameterInfo_validate ==
    Validate("ParameterInfo", ParameterInfo_validate(self))

Call_ValueInfo_init ==
    Construct("ValueInfo", ValueInfo(arg.a[1], arg.a[2], arg.a[3]))

Call_ValueInfo_from_json == FromJson("ValueInfo")

\* unc.items() exists on a mapping only
Call_ValueInfo_to_json ==
    ToJson("ValueInfo",
           IF self.unc_p.t = "dict" /\ self.unc_m.t = "dict"
           THEN Ok(ValueInfo_to_json(self))
           ELSE Raise("AttributeError"))

Call_ValueInfo_validate == Validate("ValueInfo", ValueInfo_validate(self))

NextInfo ==
    \/ Call_ColumnInfo_init
    \/ Call_ColumnInfo_from_json
    \/ Call_ColumnInfo_to_json
    \/ Call_ColumnInfo_validate
    \/ Call_ParameterInfo_init
    \/ Call_ParameterInfo_from_json
    \/ Call_ParameterInfo_to_json
    \/ Call_ParameterInfo_validate
    \/ Call_ValueInfo_init
    \/ Call_ValueInfo_from_json
    \/ Call_ValueInfo_to_json
    \/ Call_ValueInfo_validate

SpecInfo == InitInfo /\ [][NextInfo]_vars

(***************************************************************************)
(* Inputs of the TableInfo scenarios                                       *)
(***************************************************************************)
\* most entries of columns, of parameters and of values in one table
MaxColumns == 2

MaxParameters == 1

MaxValues == 1

ListsUpTo(S, n) == {[t |-> "list", l |-> l] : l \in SeqUpTo(S, n)}

ListOf(x) == [t |-> "list", l |-> <<x>>]

DocumentVals == {DictV(0), DictV(1), ListV(1), StrV("d")}

\* entries of "columns": named a, named b, without a name
TColumnJsons ==
    {JObjOf(<<"name">>, <<StrV("a")>>),
     JObjOf(<<"name", "unit", "index">>, <<StrV("b"), StrV("GeV"), IntV(5)>>),
     JObj(NoKeys)}

\* entries of "parameters": a column that exists, one that may not, a
\* granularity that is refused
TParameterJsons ==
    {JObjOf(<<"column", "granularity">>, <<StrV("a"), IntV(0)>>),
     JObjOf(<<"column">>, <<StrV("c")>>),
     JObjOf(<<"column", "granularity">>, <<StrV("a"), IntV(-1)>>)}

\* entries of "values": with a shared uncertainty, with a column that is not
\* a string, without a column
TValueJsons ==
    {JObjOf(<<"column", "unc">>, <<StrV("b"), ListOf(Source(StrV("a"), StrV("relative")))>>),
     JObjOf(<<"column">>, <<IntV(5)>>),
     JObjOf(<<"unc">>, <<EmptyList>>)}

\* keys _load does not recognize: none, "comment", or "self"
ExtraKeys == {<<Absent, Absent>>, <<StrV("x"), Absent>>, <<Absent, StrV("x")>>}

TColumns ==
    {ColumnInfo(i, n, StrV("")) : i \in {IntV(0), IntV(1)}, n \in {StrV("a"), StrV("b")}}

TParameters == {ParameterInfo(StrV("a"), None_), ParameterInfo(StrV("c"), IntV(2))}

Dict1(k, v) == [t |-> "dict", l |-> <<Item(k, v)>>]

TValues ==
    {ValueInfo(StrV("b"), Dict1(StrV("a"), StrV("relative")), UNone),
     ValueInfo(StrV("c"), UNone, UNone),
     ValueInfo(StrV("b"), Dict1(StrV("c"), StrV("relative")), UNone),
     ValueInfo(StrV("b"), UNone, Dict1(StrV("c"), StrV("absolute")))}

\* document and reader_options as the constructor gets them
TDocumentOptions ==
    {<<None_, None_>>, <<DictV(1), DictV(1)>>, <<ListV(1), None_>>,
     <<None_, DictNonStrKeyV(1)>>, <<None_, ListV(1)>>}

(***************************************************************************)
(* TableInfo: construction, _load, validate                                *)
(***************************************************************************)
\* the arguments of TableInfo(...)
TableCtorScenario ==
    \E d \in TDocumentOptions,
       c \in ListsUpTo(TColumns, MaxColumns)
               \cup {UNone,
                     [t |-> "tuple", l |-> <<ColumnInfo(IntV(0), StrV("a"), StrV(""))>>],
                     ListOf(ColumnInfo(IntV(0), StrV(""), StrV(""))),
                     [t |-> "list", l |-> <<ColumnInfo(IntV(0), StrV("a"), StrV("")),
                                            ColumnInfo(BoolV(TRUE), StrV("b"), StrV("GeV"))>>]},
       p \in ListsUpTo(TParameters, MaxParameters)
               \cup {UNone, ListOf(ParameterInfo(StrV(""), None_))},
       v \in ListsUpTo(TValues, MaxValues)
               \cup {UNone,
                     ListOf(ValueInfo(StrV("b"), Dict1(StrV("a"), StrV("bogus")), UNone))} :
        arg = Ctor("TableInfo", <<d[1], c, p, v, d[2]>>)

\* the JSON that load hands to _load
TableJsonScenario ==
    \E d \in Opt({DictV(1), ListV(1)}),
       c \in Opt(ListsUpTo(TColumnJsons, MaxColumns) \cup {ListOf(JOther("str"))}),
       p \in Opt(ListsUpTo(TParameterJsons, MaxParameters)),
       v \in Opt(ListsUpTo(TValueJsons, MaxValues)),
       r \in Opt({DictV(1)}), x \in ExtraKeys :
        arg = Json("TableInfo",
                   JObjOf(<<"document", "columns", "parameters", "values",
                            "reader_options", "comment", "self">>,
                          <<d, c, p, v, r, x[1], x[2]>>))

InitTable ==
    /\ op = "start"
    /\ TableCtorScenario \/ TableJsonScenario
    /\ self = NoObj
    /\ ret = Ok(NoObj)

\* TableInfo(...) on the arguments of the scenario, or cls() as load makes it
Call_TableInfo_init ==
    /\ op = "start"
    /\ arg.cls = "TableInfo"
    /\ op' = "TableInfo.__init__"
    /\ self' = IF arg.kind = "ctor"
               THEN TableInfo(arg.a[1], arg.a[2], arg.a[3], arg.a[4], arg.a[5])
               ELSE TableInfo(None_, UNone, UNone, UNone, None_)
    /\ ret' = Ok(NoObj)
    /\ UNCHANGED arg

Call_TableInfo__load ==
    /\ op = "TableInfo.__init__"
    /\ arg.kind = "json"
    /\ op' = "TableInfo._load"
    /\ LET r == TableInfo__load(self, arg.j)
       IN  /\ self' = r.self
           /\ ret' = [exc |-> r.exc, val |-> NoObj]
    /\ UNCHANGED arg

Call_TableInfo_validate ==
    /\ self.cls = "TableInfo"
    /\ op' = "TableInfo.validate"
    /\ ret' = [exc |-> TableInfo_validate(self), val |-> NoObj]
    /\ UNCHANGED <<arg, self>>

NextTable ==
    \/ Call_TableInfo_init
    \/ Call_TableInfo__load
    \/ Call_TableInfo_validate

SpecTable == InitTable /\ [][NextTable]_vars

(***************************************************************************)
(* Properties of the annotation model                                      *)
(***************************************************************************)

IsFromJson == op \in {"ColumnInfo.from_json", "ParameterInfo.from_json",
                      "ValueInfo.from_json"}

IsToJson == op \in {"ColumnInfo.to_json", "ParameterInfo.to_json",
                    "ValueInfo.to_json"}

\* the table has the container types validate() asks for
ContainersOk(tbl) ==
    /\ tbl.document.t = "dict"
    /\ tbl.columns.t = "list" /\ tbl.parameters.t = "list" /\ tbl.values.t = "list"
    /\ tbl.reader_options.t = "dict" /\ tbl.reader_options.s # NonStrKey

\* every column, parameter and value passes its own validate()
ElementsOk(tbl) ==
    /\ \A n \in 1..Len(tbl.columns.l) : ColumnInfo_validate(tbl.columns.l[n]) = "none"
    /\ \A n \in 1..Len(tbl.parameters.l) :
          ParameterInfo_validate(tbl.parameters.l[n]) = "none"
    /\ \A n \in 1..Len(tbl.values.l) : ValueInfo_validate(tbl.values.l[n]) = "none"

ColumnNames(tbl) == {tbl.columns.l[n].name : n \in 1..Len(tbl.columns.l)}

\* some column's index is not its 0-based position (numbers compare by value)
IndexMismatch(tbl) ==
    \E n \in 1..Len(tbl.columns.l) : tbl.columns.l[n].index.i # n - 1

DuplicateName(tbl) ==
    \E m, n \in 1..Len(tbl.columns.l) :
        m # n /\ tbl.columns.l[m].name = tbl.columns.l[n].name

DanglingReference(tbl) ==
    \/ \E n \in 1..Len(tbl.parameters.l) :
          tbl.parameters.l[n].column \notin ColumnNames(tbl)
    \/ \E n \in 1..Len(tbl.values.l) :
          \/ tbl.values.l[n].column \notin ColumnNames(tbl)
          \/ \E x \in 1..Len(tbl.values.l[n].unc_p.l) :
                tbl.values.l[n].unc_p.l[x].k \notin ColumnNames(tbl)
          \/ \E x \in 1..Len(tbl.values.l[n].unc_m.l) :
                tbl.values.l[n].unc_m.l[x].k \notin ColumnNames(tbl)

\* C1: on a table with the right container types whose columns, parameters
\* and values all pass their own validate(), TableInfo.validate() raises
\* ValueError exactly when an index differs from its position, two columns
\* share a name or a referenced column name is not defined, and returns
\* normally otherwise.
C1_TableLevelInvariants ==
    (op = "TableInfo.validate" /\ ContainersOk(self) /\ ElementsOk(self)) =>
        IF IndexMismatch(self) \/ DuplicateName(self) \/ DanglingReference(self)
        THEN ret.exc = "ValueError"
        ELSE ret.exc = "none"

C1_Witness ==
    /\ op = "TableInfo.validate"
    /\ ContainersOk(self) /\ ElementsOk(self)
    /\ Len(self.columns.l) = 2
    /\ IndexMismatch(self) /\ ~DuplicateName(self) /\ ~DanglingReference(self)
    /\ ret.exc = "ValueError"

\* the granularity the scenario supplies to the constructor or to from_json
SuppliedGranularity ==
    IF arg.kind = "ctor" THEN arg.a[2] ELSE Get(arg.j, "granularity", None_)

SuppliedColumn ==
    IF arg.kind = "ctor" THEN arg.a[1] ELSE Get(arg.j, "column", None_)

\* C2: a ParameterInfo built (by the constructor or by from_json) from a
\* well-formed column and a supplied granularity g <= 0, g = 0 included, is
\* rejected with ValueError: by validate(), and already by from_json.
C2_NonPositiveGranularityRejected ==
    (/\ arg.cls = "ParameterInfo"
     /\ arg.kind \in {"ctor", "json"}
     /\ arg.kind = "json" => arg.j.t = "dict"
     /\ IsStr(SuppliedColumn) /\ Truthy(SuppliedColumn)
     /\ SuppliedGranularity.t \in {"int", "float"}
     /\ SuppliedGranularity.i <= 0
     /\ op \in {"ParameterInfo.validate", "ParameterInfo.from_json"})
        => ret.exc = "ValueError"

\* C3: the outcome of TableInfo.validate() is the same for every other value
\* of document, the rest of the table being equal.
C3_DocumentIrrelevant ==
    op = "TableInfo.validate" =>
        \A d \in DocumentVals :
            TableInfo_validate([self EXCEPT !.document = d]) = ret.exc

\* C4: for a ColumnInfo, ParameterInfo or ValueInfo x that passes validate(),
\* from_json(x.to_json()) succeeds and returns an instance with the
\* attributes of x, whose to_json() is x.to_json() again.
C4_RoundTrip ==
    (IsFromJson /\ arg.kind = "roundtrip" /\ validate(self) = "none") =>
        /\ ret.exc = "none"
        /\ ret.val = self
        /\ to_json(ret.val) = arg.j

C4_Witness ==
    /\ op = "ValueInfo.from_json"
    /\ arg.kind = "roundtrip"
    /\ validate(self) = "none"
    /\ Len(self.unc_p.l) = 2 /\ self.unc_m.l = <<>>
    /\ ret.val = self

\* C5: to_json() leaves out every optional field that has its default value:
\* "unit" of an empty unit, "granularity" of an absent granularity, "unc+" /
\* "unc-" of an empty mapping.
C5_DefaultsOmitted ==
    (IsToJson /\ ret.exc = "none") =>
        /\ (self.cls = "ColumnInfo" /\ self.unit = StrV("")) => ~Has(ret.val, "unit")
        /\ (self.cls = "ParameterInfo" /\ self.granularity = None_)
              => ~Has(ret.val, "granularity")
        /\ (self.cls = "ValueInfo" /\ self.unc_p.l = <<>>) => ~Has(ret.val, "unc+")
        /\ (self.cls = "ValueInfo" /\ self.unc_m.l = <<>>) => ~Has(ret.val, "unc-")

\* a required key of j is absent or holds a value of the wrong type
Malformed(cls, j) ==
    \/ j.t # "dict"
    \/ cls = "ColumnInfo" /\ (~Has(j, "index") \/ ~Has(j, "name"))
    \/ cls = "ColumnInfo" /\ (~IsInt(j.m["index"]) \/ ~IsStr(j.m["name"]))
    \/ cls # "ColumnInfo" /\ ~Has(j, "column")
    \/ cls # "ColumnInfo" /\ ~IsStr(j.m["column"])

\* C6: from_json raises and returns no instance when a required key is
\* absent or holds a value of the wrong type.
C6_MalformedRejected ==
    (IsFromJson /\ Malformed(arg.cls, arg.j)) =>
        ret.exc # "none" /\ ret.val = NoObj

HasNoUnc(j) == ~Has(j, "unc") /\ ~Has(j, "unc+") /\ ~Has(j, "unc-")

HasAmbiguousUnc(j) == Has(j, "unc") /\ (Has(j, "unc+") \/ Has(j, "unc-"))

\* C7 as stated: ValueInfo.from_json raises ValueError whenever the input has
\* "unc" together with "unc+" or "unc-", and succeeds with both mappings
\* empty whenever the input has none of the three keys.
C7_UncKeys ==
    op = "ValueInfo.from_json" =>
        /\ HasAmbiguousUnc(arg.j) => ret.exc = "ValueError"
        /\ (arg.j.t = "dict" /\ HasNoUnc(arg.j)) =>
              /\ ret.exc = "none"
              /\ ret.val.unc_p = EmptyDict /\ ret.val.unc_m = EmptyDict

\* C7 amended: the same, for the inputs that have the required key "column".
C7_UncKeysWithColumn ==
    (op = "ValueInfo.from_json" /\ Has(arg.j, "column")) =>
        /\ HasAmbiguousUnc(arg.j) => ret.exc = "ValueError"
        /\ HasNoUnc(arg.j) =>
              /\ ret.exc = "none"
              /\ ret.val.unc_p = EmptyDict /\ ret.val.unc_m = EmptyDict

C7_Witness ==
    /\ op = "ValueInfo.from_json"
    /\ Has(arg.j, "column") /\ Has(arg.j, "unc") /\ Has(arg.j, "unc-")
    /\ ~Has(arg.j, "unc+")
    /\ ret.exc = "ValueError"

\* the JSON object j without the keys outside Keys
Strip(j, Keys) == [j EXCEPT !.m = [k \in DOMAIN j.m \cap Keys |-> j.m[k]]]

Recognized(cls) ==
    CASE cls = "ColumnInfo" -> {"index", "name", "unit"}
      [] cls = "ParameterInfo" -> {"column", "granularity"}
      [] cls = "ValueInfo" -> {"column", "unc+", "unc-", "unc"}
      [] cls = "TableInfo" -> {"document", "columns", "parameters", "values",
                               "reader_options"}

\* C8: keys outside the recognized set change neither whether from_json /
\* _load succeeds nor the instance that results: the outcome is the outcome
\* on the input without them.
C8_UnknownKeysIgnored ==
    /\ IsFromJson => ret = from_json(arg.cls, Strip(arg.j, Recognized(arg.cls)))
    /\ op = "TableInfo._load" =>
          [exc |-> ret.exc, self |-> self] =
              TableInfo__load(TableInfo(None_, UNone, UNone, UNone, None_),
                              Strip(arg.j, Recognized("TableInfo")))

(***************************************************************************)
(* InterpolationWithUncertainties.  A fit is a function of one coordinate, *)
(* called with the point x unpacked into its arguments: it takes points     *)
(* of exactly one coordinate.  kwargs is a function from names to values.  *)
(***************************************************************************)
NoKw == [k \in {} |-> 0]

Abs(x) == IF x < 0 THEN -x ELSE x

Max(S) == CHOOSE x \in S : \A y \in S : y <= x

\* {name: i for i, name in enumerate(param_names or [])}
InterpolationWithUncertainties(central, central_plus_unc, central_minus_unc, param_names) ==
    [cls |-> "InterpolationWithUncertainties",
     f0 |-> central, fp |-> central_plus_unc, fm |-> central_minus_unc,
     param_index |-> [name \in {param_names[n] : n \in 1..Len(param_names)} |->
                         Max({n \in 1..Len(param_names) :
                                 param_names[n] = name}) - 1]]

\* fit(x): f called with the coordinates of x as its arguments
Fit(f, x) == IF Len(x) # 1 THEN Raise("TypeError") ELSE Ok(f[x[1]])

_interpret_args(obj, args, kwargs) ==
    IF DOMAIN kwargs = {} THEN Ok(args)
    ELSE IF \E key \in DOMAIN kwargs : key \notin DOMAIN obj.param_index
    THEN Raise("KeyError")
    ELSE LET index(key) == obj.param_index[key]
             len == Max({Len(args)} \cup {index(key) + 1 : key \in DOMAIN kwargs})
             tmp == [n \in 1..len |->
                       IF \E key \in DOMAIN kwargs : index(key) = n - 1
                       THEN [none |-> FALSE,
                             v |-> kwargs[CHOOSE key \in DOMAIN kwargs :
                                             index(key) = n - 1]]
                       ELSE IF n <= Len(args) THEN [none |-> FALSE, v |-> args[n]]
                       ELSE [none |-> TRUE, v |-> 0]]
         IN  IF \E n \in 1..len : tmp[n].none THEN Raise("ValueError")
             ELSE Ok([n \in 1..len |-> tmp[n].v])

\* one of the three fits at the point _interpret_args makes of a and kw
Eval(f, obj, a, kw) ==
    LET x == _interpret_args(obj, a, kw)
    IN  IF x.exc # "none" THEN Raise(x.exc) ELSE Fit(f, x.val)

f0(obj, a, kw) == Eval(obj.f0, obj, a, kw)

fp(obj, a, kw) == Eval(obj.fp, obj, a, kw)

fm(obj, a, kw) == Eval(obj.fm, obj, a, kw)

unc_p_at(obj, a, kw) ==
    LET args == _interpret_args(obj, a, kw)
    IN  IF args.exc # "none" THEN Raise(args.exc)
        ELSE LET p == fp(obj, args.val, NoKw)
                 c == f0(obj, args.val, NoKw)
             IN  IF p.exc # "none" THEN Raise(p.exc)
                 ELSE IF c.exc # "none" THEN Raise(c.exc)
                 ELSE Ok(p.val - c.val)

\* unc_m_at that returns the magnitude f0 - fm
unc_m_at_Magnitude(obj, a, kw) ==
    LET args == _interpret_args(obj, a, kw)
    IN  IF args.exc # "none" THEN Raise(args.exc)
        ELSE LET c == f0(obj, args.val, NoKw)
                 m == fm(obj, args.val, NoKw)
             IN  IF c.exc # "none" THEN Raise(c.exc)
                 ELSE IF m.exc # "none" THEN Raise(m.exc)
                 ELSE Ok(c.val - m.val)

unc_m_at(obj, a, kw) ==
    LET args == _interpret_args(obj, a, kw)
    IN  IF args.exc # "none" THEN Raise(args.exc)
        ELSE LET c == f0(obj, args.val, NoKw)
                 m == fm(obj, args.val, NoKw)
             IN  IF c.exc # "none" THEN Raise(c.exc)
                 ELSE IF m.exc # "none" THEN Raise(m.exc)
                 ELSE Ok(-(c.val - m.val))

tuple_at(obj, a, kw) ==
    LET args == _interpret_args(obj, a, kw)
    IN  IF args.exc # "none" THEN Raise(args.exc)
        ELSE LET c == f0(obj, args.val, NoKw)
                 p == unc_p_at(obj, args.val, NoKw)
                 m == unc_m_at(obj, args.val, NoKw)
             IN  IF c.exc # "none" THEN Raise(c.exc)
                 ELSE IF p.exc # "none" THEN Raise(p.exc)
                 ELSE IF m.exc # "none" THEN Raise(m.exc)
                 ELSE Ok(<<c.val, p.val, m.val>>)

\* __call__ without abs() around unc_m_at
__call___NoAbs(obj, args, kwargs) ==
    LET unc_level == IF "unc_level" \in DOMAIN kwargs THEN kwargs["unc_level"] ELSE 0
        c == f0(obj, args, NoKw)
        shift == IF unc_level > 0 THEN unc_p_at(obj, args, NoKw)
                 ELSE IF unc_level < 0 THEN unc_m_at(obj, args, NoKw)
                 ELSE Ok(0)
    IN  IF c.exc # "none" THEN Raise(c.exc)
        ELSE IF shift.exc # "none" THEN Raise(shift.exc)
        ELSE Ok(c.val + unc_level * shift.val)

\* calling the object: only unc_level is read from kwargs
__call__(obj, args, kwargs) ==
    LET unc_level == IF "unc_level" \in DOMAIN kwargs THEN kwargs["unc_level"] ELSE 0
        c == f0(obj, args, NoKw)
        shift == IF unc_level > 0 THEN unc_p_at(obj, args, NoKw)
                 ELSE IF unc_level < 0 THEN unc_m_at(obj, args, NoKw)
                 ELSE Ok(0)
    IN  IF c.exc # "none" THEN Raise(c.exc)
        ELSE IF shift.exc # "none" THEN Raise(shift.exc)
        ELSE Ok(c.val + (IF unc_level > 0 THEN unc_level * shift.val
                         ELSE IF unc_level < 0 THEN unc_level * Abs(shift.val)
                         ELSE 0))

(***************************************************************************)
(* Inputs of the interpolation scenarios: the three fits and the parameter *)
(* names the object is built from, and the query (args, kwargs) put to it  *)
(***************************************************************************)
\* the sample grid is 1..MaxX, the fitted values are 0..MaxVal
MaxX == 2

MaxVal == 2

\* most positional arguments of a query, most parameter names of an object
MaxArgs == 2

MaxNames == 2

\* unc_level ranges over -MaxLevel..MaxLevel
MaxLevel == 2

Grid == 1..MaxX

AllNames == <<"m", "n", "k">>

\* constant fits and the fit that returns its coordinate
Fits == {[x \in Grid |-> c] : c \in 0..MaxVal} \cup {[x \in Grid |-> x]}

CentralFits == {[x \in Grid |-> 1], [x \in Grid |-> x]}

\* named values: m takes any grid value, the names after it the value MaxX
NamedValues ==
    {[name \in K |-> IF name = AllNames[1] THEN v ELSE MaxX] :
        K \in SUBSET {AllNames[n] : n \in 1..MaxNames}, v \in Grid}

Kwargs ==
    NamedValues
        \cup {[name \in {"z"} |-> 1]}
        \cup {[name \in {"unc_level"} |-> u] : u \in (-MaxLevel)..MaxLevel}
        \cup {[name \in {"unc_level", AllNames[1]} |-> IF name = "unc_level" THEN 1 ELSE v] :
                 v \in Grid}

(***************************************************************************)
(* InterpolationWithUncertainties: construction and the queries            *)
(***************************************************************************)
InitInterp ==
    /\ op = "start"
    /\ \E c \in CentralFits, p \in Fits, m \in Fits, n \in 0..MaxNames,
          x \in SeqUpTo(Grid, MaxArgs), kw \in Kwargs :
          arg = [kind |-> "interp", cls |-> "InterpolationWithUncertainties",
                 a |-> <<c, p, m, SubSeq(AllNames, 1, n)>>, args |-> x, kwargs |-> kw]
    /\ self = NoObj
    /\ ret = Ok(NoObj)

Call_InterpolationWithUncertainties_init ==
    /\ op = "start"
    /\ arg.kind = "interp"
    /\ op' = "InterpolationWithUncertainties.__init__"
    /\ self' = InterpolationWithUncertainties(arg.a[1], arg.a[2], arg.a[3], arg.a[4])
    /\ ret' = Ok(NoObj)
    /\ UNCHANGED arg

\* a method of the object on the query of the scenario
Query(name, result) ==
    /\ self.cls = "InterpolationWithUncertainties"
    /\ op' = name
    /\ ret' = result
    /\ UNCHANGED <<arg, self>>

Call__interpret_args ==
    Query("_interpret_args", _interpret_args(self, arg.args, arg.kwargs))

Call_f0 == Query("f0", f0(self, arg.args, arg.kwargs))

Call_fp == Query("fp", fp(self, arg.args, arg.kwargs))

Call_fm == Query("fm", fm(self, arg.args, arg.kwargs))

Call_tuple_at == Query("tuple_at", tuple_at(self, arg.args, arg.kwargs))

Call_unc_p_at == Query("unc_p_at", unc_p_at(self, arg.args, arg.kwargs))

Call_unc_m_at == Query("unc_m_at", unc_m_at(self, arg.args, arg.kwargs))

Call___call__ == Query("__call__", __call__(self, arg.args, arg.kwargs))

NextInterp ==
    \/ Call_InterpolationWithUncertainties_init
    \/ Call__interpret_args
    \/ Call_f0
    \/ Call_fp
    \/ Call_fm
    \/ Call_tuple_at
    \/ Call_unc_p_at
    \/ Call_unc_m_at
    \/ Call___call__

SpecInterp == InitInterp /\ [][NextInterp]_vars

(***************************************************************************)
(* Properties of the interpolation object                                  *)
(***************************************************************************)
\* the 0-based indices the positional arguments of the query occupy
Positions == {n - 1 : n \in 1..Len(arg.args)}

\* the indices the named arguments of the query stand for
NamedIndices == {self.param_index[k] : k \in DOMAIN arg.kwargs}

\* every parameter index is given exactly once, by position or by name
CoveredOnce ==
    /\ Positions \cup NamedIndices = {n - 1 : n \in 1..Cardinality(DOMAIN self.param_index)}
    /\ Positions \cap NamedIndices = {}

\* C9: a query mixing positional and named values (all names known) yields
\* a point only if positions and named indices cover every parameter index
\* exactly once; otherwise _interpret_args raises ValueError.
C9_PointCoversEveryIndex ==
    (/\ op = "_interpret_args"
     /\ DOMAIN arg.kwargs # {}
     /\ DOMAIN arg.kwargs \subseteq DOMAIN self.param_index)
        => IF CoveredOnce THEN ret.exc = "none" ELSE ret.exc = "ValueError"

\* unc_level of the query, 0 when it is omitted
UncLevel == IF "unc_level" \in DOMAIN arg.kwargs THEN arg.kwargs["unc_level"] ELSE 0

\* C10: called with a point p given positionally and unc_level u, the object
\* returns f0(p) + u * (fp(p) - f0(p)) when u > 0, f0(p) + u * |fm(p) - f0(p)|
\* when u < 0 and f0(p) when u = 0 or unc_level is omitted; so fp(p) for
\* u = 1, and fm(p) for u = -1 when fm(p) <= f0(p).
C10_CallShiftsByUncLevel ==
    (/\ op = "__call__"
     /\ Len(arg.args) = 1
     /\ DOMAIN arg.kwargs \subseteq {"unc_level"})
        => LET x == arg.args[1]
               u == UncLevel
           IN  /\ ret.exc = "none"
               /\ u > 0 => ret.val = self.f0[x] + u * (self.fp[x] - self.f0[x])
               /\ u < 0 => ret.val = self.f0[x] + u * Abs(self.fm[x] - self.f0[x])
               /\ u = 0 => ret.val = self.f0[x]
               /\ u = 1 => ret.val = self.fp[x]
               /\ (u = -1 /\ self.fm[x] <= self.f0[x]) => ret.val = self.fm[x]

C10_Witness ==
    /\ op = "__call__"
    /\ Len(arg.args) = 1
    /\ UncLevel = -2
    /\ self.fm[arg.args[1]] < self.f0[arg.args[1]]
    /\ self.fp[arg.args[1]] # self.fm[arg.args[1]]
    /\ ret.val = self.f0[arg.args[1]] - 2 * (self.f0[arg.args[1]] - self.fm[arg.args[1]])

\* the query of the scenario with its point given by position: the value
\* named m at index 0, unc_level kept
ByPosition ==
    [args |-> <<arg.kwargs["m"]>>,
     kwargs |-> [k \in DOMAIN arg.kwargs \ {"m"} |-> arg.kwargs[k]]]

\* C11: calling the object with the point given by parameter name (m = v,
\* with or without unc_level) returns what calling it with v given
\* positionally at the index of m returns.
C11_CallByName ==
    (/\ op = "__call__"
     /\ Len(arg.args) = 0
     /\ DOMAIN self.param_index = {"m"}
     /\ "m" \in DOMAIN arg.kwargs
     /\ DOMAIN arg.kwargs \subseteq {"m", "unc_level"})
        => ret = __call__(self, ByPosition.args, ByPosition.kwargs)

\* C12: for every resolvable query point p, positional or named, tuple_at(p)
\* is (f0(p), fp(p) - f0(p), -(f0(p) - fm(p))), its second component is
\* unc_p_at(p), its third is unc_m_at(p), and the third is not positive
\* whenever fm(p) <= f0(p).
C12_TupleAt ==
    (/\ op = "tuple_at"
     /\ _interpret_args(self, arg.args, arg.kwargs).exc = "none"
     /\ Len(_interpret_args(self, arg.args, arg.kwargs).val) = 1)
        => LET x == _interpret_args(self, arg.args, arg.kwargs).val[1]
           IN  /\ ret = Ok(<<self.f0[x], self.fp[x] - self.f0[x],
                             -(self.f0[x] - self.fm[x])>>)
               /\ ret.val[1] = f0(self, arg.args, arg.kwargs).val
               /\ ret.val[2] = unc_p_at(self, arg.args, arg.kwargs).val
               /\ ret.val[3] = unc_m_at(self, arg.args, arg.kwargs).val
               /\ self.fm[x] <= self.f0[x] => ret.val[3] <= 0

\* a named point whose lower fit lies below the central fit
C12_Witness ==
    /\ op = "tuple_at"
    /\ Len(arg.args) = 0
    /\ DOMAIN arg.kwargs = {"m"}
    /\ ret.exc = "none"
    /\ ret.val[2] > 0
    /\ ret.val[3] < 0

(***************************************************************************)
(* The interpolators.  A data frame is [nlevels, names, x, cols]: the      *)
(* number of levels and the names of its index, the index values row by    *)
(* row, and the columns it has, each a sequence with one entry per row.  A *)
(* series is [nlevels, x, y].  A fitted function is a TLA+ function of the *)
(* query coordinate; coordinates of queries are counted in halves of the   *)
(* unit of the index (5 stands for 2.5), values in units.                  *)
(***************************************************************************)
\* df[name]
Column(df, name) ==
    IF name \in DOMAIN df.cols
    THEN [exc |-> "none", s |-> [nlevels |-> df.nlevels, x |-> df.x, y |-> df.cols[name]]]
    ELSE [exc |-> "KeyError", s |-> [nlevels |-> df.nlevels, x |-> df.x, y |-> <<>>]]

\* a + b, a - b and abs(a) on series over the same index, row by row
SeriesAdd(a, b) == [a EXCEPT !.y = [n \in 1..Len(a.y) |-> a.y[n] + b.y[n]]]

SeriesSub(a, b) == [a EXCEPT !.y = [n \in 1..Len(a.y) |-> a.y[n] - b.y[n]]]

SeriesAbs(a) == [a EXCEPT !.y = [n \in 1..Len(a.y) |-> Abs(a.y[n])]]

\* the transforms of an axis: linear is the identity (log and exp are not
\* integer functions and are not evaluated here)
Transform(kind, v) == CASE kind = "linear" -> v

AxesWrapper(wx, wy, wy_inv) == [wx |-> wx, wy |-> wy, wy_inv |-> wy_inv]

\* wrapper.correct(fit): the query is transformed forward, the fit
\* evaluated, the result transformed back
correct(wrapper, fit) ==
    [q \in DOMAIN fit |->
        Transform(wrapper.wy_inv, fit[Transform(wrapper.wx[1], q)])]

\* str.lower() on the kinds drawn
Lower(s) == IF s = "Linear" THEN "linear" ELSE s

\* Scipy1dInterpolator(kind, axes): the instance, or the KeyError of the
\* lookup of axes
Scipy1dInterpolator(kind, axes) ==
    LET key == Or(axes, StrV("linear"))
        table == [k \in {"linear", "log", "loglinear", "loglog"} |->
                    CASE k = "linear" -> AxesWrapper(<<"linear">>, "linear", "linear")
                      [] k = "log" -> AxesWrapper(<<"linear">>, "log", "exp")
                      [] k = "loglinear" -> AxesWrapper(<<"log">>, "linear", "linear")
                      [] k = "loglog" -> AxesWrapper(<<"log">>, "log", "exp")]
    IN  IF key.t # "str" \/ key.s \notin DOMAIN table THEN Raise("KeyError")
        ELSE Ok([cls |-> "Scipy1dInterpolator",
                 kind |-> Lower(Or(kind, StrV("linear")).s),
                 wrapper |-> table[key.s]])

\* scipy.interpolate.interp1d(xs, ys, "linear"): the piecewise-linear
\* function through the samples, defined between the first and the last
interp1d(xs, ys, kind) ==
    CASE kind = "linear" ->
        [q \in (2 * xs[1])..(2 * xs[Len(xs)]) |->
            LET i == CHOOSE n \in 1..(Len(xs) - 1) : 2 * xs[n] <= q /\ q <= 2 * xs[n + 1]
            IN  ys[i] + ((ys[i + 1] - ys[i]) * (q - 2 * xs[i]))
                            \div (2 * (xs[i + 1] - xs[i]))]

\* Scipy1dInterpolator._interpolate without the test of the index levels
Scipy1dInterpolator__interpolate_NoLevelCheck(obj, s) ==
    LET x_list == [n \in 1..Len(s.x) |-> Transform(obj.wrapper.wx[1], s.x[n])]
        y_list == [n \in 1..Len(s.y) |-> Transform(obj.wrapper.wy, s.y[n])]
    IN  Ok(correct(obj.wrapper, interp1d(x_list, y_list, obj.kind)))

Scipy1dInterpolator__interpolate(obj, s) ==
    IF s.nlevels # 1 THEN Raise("Exception")
    ELSE LET x_list == [n \in 1..Len(s.x) |-> Transform(obj.wrapper.wx[1], s.x[n])]
             y_list == [n \in 1..Len(s.y) |-> Transform(obj.wrapper.wy, s.y[n])]
         IN  Ok(correct(obj.wrapper, interp1d(x_list, y_list, obj.kind)))

\* self._interpolate(s): the abstract class has no fit
_interpolate(obj, s) ==
    CASE obj.cls = "AbstractInterpolator" -> Raise("NotImplementedError")
      [] obj.cls = "Scipy1dInterpolator" -> Scipy1dInterpolator__interpolate(obj, s)

\* interpolate that subtracts unc- as it is
AbstractInterpolator_interpolate_NoAbs(obj, df) ==
    LET v == Column(df, "value")
        up == Column(df, "unc+")
        um == Column(df, "unc-")
        c == _interpolate(obj, v.s)
        p == _interpolate(obj, SeriesAdd(v.s, up.s))
        m == _interpolate(obj, SeriesSub(v.s, um.s))
    IN  IF v.exc # "none" THEN Raise(v.exc)
        ELSE IF c.exc # "none" THEN Raise(c.exc)
        ELSE IF up.exc # "none" THEN Raise(up.exc)
        ELSE IF p.exc # "none" THEN Raise(p.exc)
        ELSE IF um.exc # "none" THEN Raise(um.exc)
        ELSE IF m.exc # "none" THEN Raise(m.exc)
        ELSE Ok(InterpolationWithUncertainties(c.val, p.val, m.val, df.names))

\* interpolate that hands the lower series to the upper fit and the upper
\* series to the lower fit
AbstractInterpolator_interpolate_SwappedBands(obj, df) ==
    LET v == Column(df, "value")
        up == Column(df, "unc+")
        um == Column(df, "unc-")
        c == _interpolate(obj, v.s)
        p == _interpolate(obj, SeriesSub(v.s, SeriesAbs(um.s)))
        m == _interpolate(obj, SeriesAdd(v.s, up.s))
    IN  IF v.exc # "none" THEN Raise(v.exc)
        ELSE IF c.exc # "none" THEN Raise(c.exc)
        ELSE IF um.exc # "none" THEN Raise(um.exc)
        ELSE IF p.exc # "none" THEN Raise(p.exc)
        ELSE IF up.exc # "none" THEN Raise(up.exc)
        ELSE IF m.exc # "none" THEN Raise(m.exc)
        ELSE Ok(InterpolationWithUncertainties(c.val, p.val, m.val, df.names))

\* the three arguments are evaluated in order, each column read just before
\* the fit that needs it; the first exception ends the call
AbstractInterpolator_interpolate(obj, df) ==
    LET v == Column(df, "value")
        up == Column(df, "unc+")
        um == Column(df, "unc-")
        c == _interpolate(obj, v.s)
        p == _interpolate(obj, SeriesAdd(v.s, up.s))
        m == _interpolate(obj, SeriesSub(v.s, SeriesAbs(um.s)))
    IN  IF v.exc # "none" THEN Raise(v.exc)
        ELSE IF c.exc # "none" THEN Raise(c.exc)
        ELSE IF up.exc # "none" THEN Raise(up.exc)
        ELSE IF p.exc # "none" THEN Raise(p.exc)
        ELSE IF um.exc # "none" THEN Raise(um.exc)
        ELSE IF m.exc # "none" THEN Raise(m.exc)
        ELSE Ok(InterpolationWithUncertainties(c.val, p.val, m.val, df.names))

(***************************************************************************)
(* Inputs of the interpolator scenarios: the interpolator, the data frame  *)
(* it is given and the query put to the interpolation it returns           *)
(***************************************************************************)
\* most rows of a data frame (the least is two)
MaxRows == 4

Rows == 2..MaxRows

\* the index of a frame of n rows is 1, 2, ..., n
IndexOf(n) == [i \in 1..n |-> i]

\* value: rising by 10 a row, or flat
ValueSeries(n) == {[i \in 1..n |-> 10 * i], [i \in 1..n |-> 10]}

\* unc+: 0 throughout, 1 throughout, or 2 in the first row only
UncPlusSeries(n) ==
    {[i \in 1..n |-> 0], [i \in 1..n |-> 1], [i \in 1..n |-> IF i = 1 THEN 2 ELSE 0]}

\* unc-: a magnitude of 2 with either sign row by row, or 1 throughout
UncMinusSeries(n) == [1..n -> {-2, 2}] \cup {[i \in 1..n |-> 1]}

DataFrame(nlevels, n, cols) ==
    [nlevels |-> nlevels, names |-> SubSeq(AllNames, 1, nlevels),
     x |-> IndexOf(n), cols |-> cols]

Columns3(v, up, um) ==
    [k \in {"value", "unc+", "unc-"} |->
        CASE k = "value" -> v [] k = "unc+" -> up [] k = "unc-" -> um]

\* the queries put to the interpolation of a frame of n rows: a coordinate
\* from the first sample to the last in steps of a half, by position or by
\* name, without or with unc_level
FitQueries(n) ==
    UNION {{[args |-> <<q>>, kwargs |-> NoKw],
            [args |-> <<>>, kwargs |-> [k \in {AllNames[1]} |-> q]],
            [args |-> <<q>>, kwargs |-> [k \in {"unc_level"} |-> 1]],
            [args |-> <<q>>, kwargs |-> [k \in {"unc_level"} |-> -1]]} :
           q \in (2 * 1)..(2 * n)}

FitArg(cls, a, df, query) ==
    [kind |-> "fit", cls |-> cls, a |-> a, df |-> df,
     args |-> query.args, kwargs |-> query.kwargs]

\* a one-level frame with its three columns given to Scipy1dInterpolator()
FitScenario ==
    \E n \in Rows :
      \E v \in ValueSeries(n), up \in UncPlusSeries(n), um \in UncMinusSeries(n),
         query \in FitQueries(n) :
        arg = FitArg("Scipy1dInterpolator", <<None_, None_>>,
                     DataFrame(1, n, Columns3(v, up, um)), query)

\* the other interpolators, frames with two index levels and frames that
\* lack a column
FitVariantScenario ==
    \E cls \in {"Scipy1dInterpolator", "AbstractInterpolator"},
       kind \in {None_, StrV("linear"), StrV("Linear")},
       axes \in {None_, StrV("linear"), StrV("cubic")},
       nlevels \in {1, 2}, n \in Rows,
       present \in (SUBSET {"value", "unc+", "unc-"}) \ {{}} :
        arg = FitArg(cls, <<kind, axes>>,
                     DataFrame(nlevels, n,
                               [k \in present |-> Columns3(
                                   [i \in 1..n |-> 10 * i], [i \in 1..n |-> 1],
                                   [i \in 1..n |-> -1])[k]]),
                     [args |-> <<3>>, kwargs |-> NoKw])

InitFit ==
    /\ op = "start"
    /\ FitScenario \/ FitVariantScenario
    /\ self = NoObj
    /\ ret = Ok(NoObj)

(***************************************************************************)
(* The interpolators: construction and interpolate; the interpolation that *)
(* interpolate returns becomes the instance the queries are put to         *)
(***************************************************************************)
Call_Scipy1dInterpolator_init ==
    /\ op = "start"
    /\ arg.kind = "fit"
    /\ arg.cls = "Scipy1dInterpolator"
    /\ op' = "Scipy1dInterpolator.__init__"
    /\ ret' = [exc |-> Scipy1dInterpolator(arg.a[1], arg.a[2]).exc, val |-> NoObj]
    /\ self' = Scipy1dInterpolator(arg.a[1], arg.a[2]).val
    /\ UNCHANGED arg

Call_AbstractInterpolator_init ==
    /\ op = "start"
    /\ arg.kind = "fit"
    /\ arg.cls = "AbstractInterpolator"
    /\ op' = "AbstractInterpolator.__init__"
    /\ ret' = Ok(NoObj)
    /\ self' = [cls |-> "AbstractInterpolator"]
    /\ UNCHANGED arg

Call_AbstractInterpolator_interpolate ==
    /\ self.cls \in {"Scipy1dInterpolator", "AbstractInterpolator"}
    /\ op' = "AbstractInterpolator.interpolate"
    /\ ret' = AbstractInterpolator_interpolate(self, arg.df)
    /\ self' = IF ret'.exc = "none" THEN ret'.val ELSE self
    /\ UNCHANGED arg

NextFit ==
    \/ Call_Scipy1dInterpolator_init
    \/ Call_AbstractInterpolator_init
    \/ Call_AbstractInterpolator_interpolate
    \/ Call__interpret_args
    \/ Call_f0
    \/ Call_fp
    \/ Call_fm
    \/ Call_tuple_at
    \/ Call_unc_p_at
    \/ Call_unc_m_at
    \/ Call___call__

SpecFit == InitFit /\ [][NextFit]_vars

(***************************************************************************)
(* Properties of the interpolators                                         *)
(***************************************************************************)
\* the frame of the scenario with the entry of unc- in row r negated
NegatedUncMinus(df, r) ==
    [df EXCEPT !.cols = [k \in DOMAIN df.cols |->
        IF k = "unc-" THEN [df.cols[k] EXCEPT ![r] = -df.cols[k][r]]
        ELSE df.cols[k]]]

\* the interpolation the scenario built
Built == arg.kind = "fit" /\ self.cls = "InterpolationWithUncertainties"

\* C13: interpolate fits three series derived row by row, value,
\* value + unc+ and value - |unc-|: at every sample row the three fits
\* return these, the lower fit never exceeds the central one there, and
\* negating any entry of unc- yields the same interpolation.
C13_ThreeSeries ==
    Built =>
        /\ \A r \in 1..Len(arg.df.x) :
            LET q == 2 * arg.df.x[r]
                cols == arg.df.cols
            IN  /\ self.f0[q] = cols["value"][r]
                /\ self.fp[q] = cols["value"][r] + cols["unc+"][r]
                /\ self.fm[q] = cols["value"][r] - Abs(cols["unc-"][r])
                /\ self.fm[q] <= self.f0[q]
                /\ op = "AbstractInterpolator.interpolate" =>
                       AbstractInterpolator_interpolate(
                           Scipy1dInterpolator(arg.a[1], arg.a[2]).val,
                           NegatedUncMinus(arg.df, r)) = ret
        /\ DOMAIN self.f0 = DOMAIN self.fp
        /\ DOMAIN self.f0 = DOMAIN self.fm

\* built from a frame whose unc- has entries of both signs
C13_Witness ==
    /\ op = "AbstractInterpolator.interpolate"
    /\ Built
    /\ \E r, s \in 1..Len(arg.df.x) :
          /\ arg.df.cols["unc-"][r] < 0
          /\ arg.df.cols["unc-"][s] > 0
          /\ self.fm[2 * arg.df.x[r]] < self.f0[2 * arg.df.x[r]]

\* the coordinate of the query of the scenario, in halves
QueryPoint == IF arg.args # <<>> THEN arg.args[1] ELSE arg.kwargs[AllNames[1]]

\* the three series the frame of the scenario defines
CentralSeries == arg.df.cols["value"]

UpperSeries == [r \in 1..Len(arg.df.x) |-> arg.df.cols["value"][r] + arg.df.cols["unc+"][r]]

LowerSeries == [r \in 1..Len(arg.df.x) |-> arg.df.cols["value"][r] - Abs(arg.df.cols["unc-"][r])]

\* v is the linear interpolation of series s at QueryPoint between rows r, r + 1
IsLinearBetween(v, s, r) ==
    2 * (arg.df.x[r + 1] - arg.df.x[r]) * (v - s[r])
        = (s[r + 1] - s[r]) * (QueryPoint - 2 * arg.df.x[r])

\* x = [1, 2, 3, 4], value = [10, 20, 30, 40], unc+ = unc- = [1, 1, 1, 1]
ExampleFrame ==
    DataFrame(1, 4, Columns3([i \in 1..4 |-> 10 * i], [i \in 1..4 |-> 1],
                             [i \in 1..4 |-> 1]))

\* C14: with axes and kind linear, each of f0, fp, fm evaluates a query
\* point between two adjacent samples to the linear interpolation of its
\* series; on the example frame the point 2.5 gives f0 = 25, fp = 26,
\* fm = 24, unc_p_at = 1, unc_m_at = -1 and tuple_at = (25, 1, -1).
C14_LinearInterpolation ==
    (Built /\ DOMAIN arg.kwargs \subseteq {AllNames[1]}) =>
        /\ \A r \in 1..(Len(arg.df.x) - 1) :
            (2 * arg.df.x[r] <= QueryPoint /\ QueryPoint <= 2 * arg.df.x[r + 1]) =>
                /\ op = "f0" => ret.exc = "none" /\ IsLinearBetween(ret.val, CentralSeries, r)
                /\ op = "fp" => ret.exc = "none" /\ IsLinearBetween(ret.val, UpperSeries, r)
                /\ op = "fm" => ret.exc = "none" /\ IsLinearBetween(ret.val, LowerSeries, r)
        /\ (arg.df = ExampleFrame /\ QueryPoint = 5) =>
                /\ op = "f0" => ret = Ok(25)
                /\ op = "fp" => ret = Ok(26)
                /\ op = "fm" => ret = Ok(24)
                /\ op = "unc_p_at" => ret = Ok(1)
                /\ op = "unc_m_at" => ret = Ok(-1)
                /\ op = "tuple_at" => ret = Ok(<<25, 1, -1>>)

\* the example frame queried at 2.5 by name
C14_Witness ==
    /\ Built
    /\ arg.df = ExampleFrame
    /\ arg.kwargs = [k \in {AllNames[1]} |-> 5]
    /\ op = "tuple_at"
    /\ ret = Ok(<<25, 1, -1>>)

\* C15: Scipy1dInterpolator.interpolate on a frame whose index has more than
\* one level fails, with the error of the first of the three fits whenever
\* the frame has the column that fit reads, and returns no interpolation;
\* it returns one only when the index has exactly one level.
C15_MultiIndexRejected ==
    (/\ op = "AbstractInterpolator.interpolate"
     /\ arg.cls = "Scipy1dInterpolator")
        => /\ arg.df.nlevels # 1 =>
                /\ ret.exc # "none"
                /\ ret.val = NoObj
                /\ self.cls = "Scipy1dInterpolator"
                /\ "value" \in DOMAIN arg.df.cols => ret.exc = "Exception"
           /\ ret.exc = "none" =>
                /\ arg.df.nlevels = 1
                /\ self.cls = "InterpolationWithUncertainties"
                /\ ret.val = self

\* a frame with two index levels that lacks unc+ and unc-: the first fit
\* fails before the other columns are read
C15_Witness ==
    /\ op = "AbstractInterpolator.interpolate"
    /\ arg.cls = "Scipy1dInterpolator"
    /\ arg.df.nlevels = 2
    /\ DOMAIN arg.df.cols = {"value"}
    /\ ret = Raise("Exception")
    /\ self.cls = "Scipy1dInterpolator"

\* C16: construction from JSON is all-or-nothing: when _load fails, the
\* instance it was invoked on, the TableInfo() that load has just made, has
\* its document, columns, parameters, values and reader_options unchanged.
C16_LoadAllOrNothing ==
    (op = "TableInfo._load" /\ ret.exc # "none")
        => self = TableInfo(None_, UNone, UNone, UNone, None_)

\* the exception of the first element of a that fails its own validate()
ElementExc(a) == FirstExc([n \in 1..Len(a.l) |-> validate(a.l[n])])

\* columns, parameters, values in the order validate() visits them
Containers(tbl) == <<tbl.columns, tbl.parameters, tbl.values>>

\* the first of the three that holds an element failing its own validate()
FirstFailing(tbl) ==
    CHOOSE k \in 1..3 :
        /\ ElementExc(Containers(tbl)[k]) # "none"
        /\ \A j \in 1..(k - 1) : ElementExc(Containers(tbl)[j]) = "none"

TableLevelViolation(tbl) ==
    IndexMismatch(tbl) \/ DuplicateName(tbl) \/ DanglingReference(tbl)

\* C17: validate() checks the table-level invariants only after every
\* column, parameter and value passed its own validate(): on a table (a dict
\* document, lists up to the failing element) that has both a sub-entity
\* failing its own validate() and a table-level violation, the error raised
\* is that of the first failing sub-entity, in the order columns,
\* parameters, values, each in list order.
C17_SubEntitiesBeforeTableLevel ==
    (/\ op = "TableInfo.validate"
     /\ \E k \in 1..3 : ElementExc(Containers(self)[k]) # "none"
     /\ TableLevelViolation(self)
     /\ self.document.t = "dict"
     /\ \A j \in 1..FirstFailing(self) : Containers(self)[j].t = "list")
        => ret.exc = ElementExc(Containers(self)[FirstFailing(self)])

\* a loaded table whose first column has no name (TypeError of the column)
\* and whose parameter refers to a column that is not defined
C17_Witness ==
    /\ op = "TableInfo.validate"
    /\ self.document.t = "dict"
    /\ self.columns.t = "list"
    /\ ElementExc(self.columns) = "TypeError"
    /\ DanglingReference(self)
    /\ Len(self.parameters.l) > 0
    /\ ret.exc = "TypeError"

(***************************************************************************)
(* Reuse of one InterpolationWithUncertainties for a sequence of queries   *)
(***************************************************************************)
\* most queries put to one object
MaxQueries == 3

Methods == {"f0", "fp", "fm", "tuple_at", "unc_p_at", "unc_m_at", "__call__"}

\* getattr(obj, name)(*a, **kw)
call(name, obj, a, kw) ==
    CASE name = "f0" -> f0(obj, a, kw)
      [] name = "fp" -> fp(obj, a, kw)
      [] name = "fm" -> fm(obj, a, kw)
      [] name = "tuple_at" -> tuple_at(obj, a, kw)
      [] name = "unc_p_at" -> unc_p_at(obj, a, kw)
      [] name = "unc_m_at" -> unc_m_at(obj, a, kw)
      [] name = "__call__" -> __call__(obj, a, kw)

\* a query method that keeps the fit it evaluated last as the central fit
self_after_Caching(obj, name, a, kw) ==
    CASE name = "fp" -> [obj EXCEPT !.f0 = obj.fp]
      [] name = "fm" -> [obj EXCEPT !.f0 = obj.fm]
      [] OTHER -> obj

\* the object after the method name ran on it: no method assigns to an
\* attribute of self, and _interpret_args works on a copy of args
self_after(obj, name, a, kw) == obj

\* the queries put to the object, one after the other
ReuseQueries ==
    {[args |-> x, kwargs |-> kw] :
        x \in SeqUpTo(Grid, 1),
        kw \in {NoKw, [k \in {AllNames[1]} |-> 1], [k \in {"unc_level"} |-> -1],
                [k \in {"z"} |-> 1]}}

InitReuse ==
    /\ op = "start"
    /\ \E c \in CentralFits, p \in CentralFits, m \in {[x \in Grid |-> 0], [x \in Grid |-> x]},
          n \in 0..MaxNames :
          arg = [kind |-> "interp", cls |-> "InterpolationWithUncertainties",
                 a |-> <<c, p, m, SubSeq(AllNames, 1, n)>>,
                 args |-> <<>>, kwargs |-> NoKw, n |-> 0, failed |-> FALSE]
    /\ self = NoObj
    /\ ret = Ok(NoObj)

\* the next query: arg records it, how many queries were made and whether
\* one of the earlier ones raised
Requery(name) ==
    /\ self.cls = "InterpolationWithUncertainties"
    /\ arg.n < MaxQueries
    /\ \E query \in ReuseQueries :
        /\ op' = name
        /\ ret' = call(name, self, query.args, query.kwargs)
        /\ self' = self_after(self, name, query.args, query.kwargs)
        /\ arg' = [arg EXCEPT !.args = query.args, !.kwargs = query.kwargs,
                              !.n = @ + 1, !.failed = @ \/ ret.exc # "none"]

Requery_f0 == Requery("f0")

Requery_fp == Requery("fp")

Requery_fm == Requery("fm")

Requery_tuple_at == Requery("tuple_at")

Requery_unc_p_at == Requery("unc_p_at")

Requery_unc_m_at == Requery("unc_m_at")

Requery___call__ == Requery("__call__")

NextReuse ==
    \/ Call_InterpolationWithUncertainties_init
    \/ Requery_f0
    \/ Requery_fp
    \/ Requery_fm
    \/ Requery_tuple_at
    \/ Requery_unc_p_at
    \/ Requery_unc_m_at
    \/ Requery___call__

SpecReuse == InitReuse /\ [][NextReuse]_vars

\* the object as the constructor made it from the arguments of the scenario
AsConstructed == InterpolationWithUncertainties(arg.a[1], arg.a[2], arg.a[3], arg.a[4])

\* C18: after any sequence of successful or failing queries the three fits
\* and param_index of the object are as the constructor made them, and the
\* result of a query is what the freshly constructed object returns for the
\* same arguments.
C18_ImmutableAfterConstruction ==
    self.cls = "InterpolationWithUncertainties" =>
        /\ self = AsConstructed
        /\ op \in Methods => ret = call(op, AsConstructed, arg.args, arg.kwargs)

\* the last of MaxQueries queries succeeds after an earlier one raised
C18_Witness ==
    /\ op = "__call__"
    /\ arg.n = MaxQueries
    /\ arg.failed
    /\ ret.exc = "none"
    /\ self = AsConstructed

====
